---- MODULE Spec2Model ----
(***************************************************************************)
(* A model of src/query_expansion.py: QueryExpander.expand_query and the   *)
(* interactive loop of main.                                               *)
(*                                                                         *)
(* Python values are tagged records.  A str is a sequence of pieces: the   *)
(* literals of the program are kept as one piece each, and data that the   *)
(* program indexes, strips or lower-cases (input lines, indexed response   *)
(* strings) is held one character per piece.  Concatenation is \o.         *)
(* The remote endpoint and standard input are the environment: each call   *)
(* of llm.invoke and of input() has an outcome (a returned value or a      *)
(* raised exception) chosen nondeterministically.                          *)
(* Writing to standard output and str(e) of an exception are taken to       *)
(* succeed.  Dicts have str keys only.                                     *)
(***************************************************************************)
EXTENDS Integers, Sequences, FiniteSets, TLC

VARIABLES
    pc,          \* position of main: "init", "loop", "returned", "propagated"; "lib" when expand_query is called directly
    expander,    \* the QueryExpander instance (its attributes), or NoExpander before construction
    out,         \* standard output: the strings written, in order
    reads,       \* number of input() calls made
    expandCalls, \* number of expand_query invocations
    netCalls,    \* number of llm.invoke calls (outbound requests)
    lastInput,   \* outcome of the latest input() call
    lastArg,     \* the question handed to the latest expand_query call
    lastRequest, \* the messages sent by the latest llm.invoke call
    lastOutcome, \* the endpoint's outcome of the latest llm.invoke call
    lastRet,     \* how the latest expand_query call ended: returned list or raised exception
    iterStart,   \* Len(out) when the latest loop iteration began
    raised,      \* the exception raised inside the try block of main, if any, and where ("by")
    firstCall    \* direct calls only: the first call made (question, outcome, ret)

vars == <<pc, expander, out, reads, expandCalls, netCalls, lastInput, lastArg,
          lastRequest, lastOutcome, lastRet, iterStart, raised, firstCall>>

----------------------------------------------------------------------------
(* Bounds of the model *)

\* input() calls main makes before the model stops exploring
MaxReads == 2
\* whitespace characters put before and after an input word
MaxPad == 1
\* direct expand_query calls before the model stops exploring
MaxCalls == 3

----------------------------------------------------------------------------
(* Python values *)

None == [t |-> "none"]
PyInt(n) == [t |-> "int", i |-> n]
PyStr(s) == [t |-> "str", s |-> s]
PyList(l) == [t |-> "list", l |-> l]
PyDict(d) == [t |-> "dict", d |-> d]

Nothing == [kind |-> "nothing"]
Return(v) == [kind |-> "return", val |-> v]
Raise(e) == [kind |-> "raise", exc |-> e]

\* An exception object: its class and str(e)
Exc(cls, msg) == [cls |-> cls, msg |-> msg]

\* The builtin exception hierarchy, each class with its base class
ExcBase ==
    [ BaseException |-> "object",
      Exception |-> "BaseException",
      KeyboardInterrupt |-> "BaseException",
      SystemExit |-> "BaseException",
      LookupError |-> "Exception",
      KeyError |-> "LookupError",
      IndexError |-> "LookupError",
      TypeError |-> "Exception",
      ValueError |-> "Exception",
      EOFError |-> "Exception",
      OSError |-> "Exception",
      ConnectionError |-> "OSError" ]

RECURSIVE IsSubclass(_, _)
IsSubclass(cls, of) ==
    IF cls = of THEN TRUE
    ELSE IF cls \notin DOMAIN ExcBase THEN FALSE
    ELSE IsSubclass(ExcBase[cls], of)

\* Whether `except Exception` catches e
ExceptLookupErrorOnly(e) == IsSubclass(e.cls, "LookupError")
ExceptBaseException(e) == IsSubclass(e.cls, "BaseException")
ExceptException(e) == IsSubclass(e.cls, "Exception")

Digits == <<"0", "1", "2", "3", "4", "5", "6", "7", "8", "9">>

RECURSIVE NatToStr(_)
NatToStr(n) ==
    IF n < 10 THEN <<Digits[n + 1]>>
    ELSE NatToStr(n \div 10) \o <<Digits[(n % 10) + 1]>>

IntToStr(n) == IF n < 0 THEN <<"-">> \o NatToStr(-n) ELSE NatToStr(n)

TypeName(v) ==
    CASE v.t = "none" -> "NoneType"
      [] v.t = "int"  -> "int"
      [] v.t = "str"  -> "str"
      [] v.t = "list" -> "list"
      [] v.t = "dict" -> "dict"

RECURSIVE Repr(_)
RECURSIVE ReprItems(_)
RECURSIVE ReprPairs(_, _)
Repr(v) ==
    CASE v.t = "none" -> <<"None">>
      [] v.t = "int"  -> IntToStr(v.i)
      [] v.t = "str"  -> <<"'">> \o v.s \o <<"'">>
      [] v.t = "list" -> <<"[">> \o ReprItems(v.l) \o <<"]">>
      [] v.t = "dict" -> <<"{">> \o ReprPairs(v.d, DOMAIN v.d) \o <<"}">>
ReprItems(l) ==
    IF l = <<>> THEN <<>>
    ELSE IF Len(l) = 1 THEN Repr(l[1])
    ELSE Repr(l[1]) \o <<", ">> \o ReprItems(Tail(l))
ReprPairs(d, keys) ==
    IF keys = {} THEN <<>>
    ELSE LET k == CHOOSE x \in keys : TRUE
             one == <<"'", k, "'", ": ">> \o Repr(d[k])
         IN IF keys = {k} THEN one
            ELSE one \o <<", ">> \o ReprPairs(d, keys \ {k})

\* str(v), as the f-string {variation} formats it
Str(v) == IF v.t = "str" THEN v.s ELSE Repr(v)

\* obj[key] with a str key
GetItemStr(obj, key) ==
    CASE obj.t = "dict" ->
           IF key \in DOMAIN obj.d THEN Return(obj.d[key])
           ELSE Raise(Exc("KeyError", <<"'", key, "'">>))
      [] obj.t = "list" ->
           Raise(Exc("TypeError", <<"list indices must be integers or slices, not str">>))
      [] obj.t = "str" ->
           Raise(Exc("TypeError", <<"string indices must be integers, not 'str'">>))
      [] OTHER ->
           Raise(Exc("TypeError", <<"'", TypeName(obj), "' object is not subscriptable">>))

\* obj[n] with an int key n >= 0 (the dicts of the model have str keys only)
GetItemInt(obj, n) ==
    CASE obj.t = "list" ->
           IF n < Len(obj.l) THEN Return(obj.l[n + 1])
           ELSE Raise(Exc("IndexError", <<"list index out of range">>))
      [] obj.t = "str" ->
           IF n < Len(obj.s) THEN Return(PyStr(<<obj.s[n + 1]>>))
           ELSE Raise(Exc("IndexError", <<"string index out of range">>))
      [] obj.t = "dict" ->
           Raise(Exc("KeyError", IntToStr(n)))
      [] OTHER ->
           Raise(Exc("TypeError", <<"'", TypeName(obj), "' object is not subscriptable">>))

----------------------------------------------------------------------------
(* QueryExpander *)

NoExpander == [constructed |-> FALSE]

\* The attributes __init__ sets
QueryExpander_init ==
    [ constructed |-> TRUE,
      system_prompt |-> <<"You are an expert at expanding user questions into multiple variations. ...">>,
      repo_id |-> "HuggingFaceH4/zephyr-7b-beta",
      task |-> "text-generation",
      temperature |-> "0" ]

\* formatted_message of expand_query
FormattedMessage(self, question) ==
    << [role |-> "system", content |-> self.system_prompt],
       [role |-> "human", content |-> question] >>

\* result['choices'][0]['text']
ExtractLast(result) ==
    LET a == GetItemStr(result, "choices")
    IN  IF a.kind = "raise" THEN a
        ELSE IF a.val.t \notin {"list", "str"} \/ a.val = PyList(<<>>) \/ a.val = PyStr(<<>>)
        THEN GetItemInt(a.val, 0)
        ELSE LET b == GetItemInt(a.val, Len(IF a.val.t = "list" THEN a.val.l ELSE a.val.s) - 1)
             IN  IF b.kind = "raise" THEN b
                 ELSE GetItemStr(b.val, "text")
ExtractFirst(result) ==
    LET a == GetItemStr(result, "choices")
    IN  IF a.kind = "raise" THEN a
        ELSE LET b == GetItemInt(a.val, 0)
             IN  IF b.kind = "raise" THEN b
                 ELSE GetItemStr(b.val, "text")

\* variations = [result['choices'][0]['text']]
WrapVariations(text) ==
    IF text.kind = "raise" THEN text ELSE Return(<<text.val>>)

\* The try block of expand_query with the endpoint's outcome for llm.invoke:
\* the list it returns or the exception it raises
try_body(outcome) ==
    IF outcome.kind = "raise" THEN outcome
    ELSE WrapVariations(ExtractFirst(outcome.val))

\* The try statement of expand_query, whose block ended as body: how the
\* function ends (ret) and what it prints
try_except_reraise(body) ==
    IF body.kind = "return" THEN [ret |-> body, printed |-> <<>>]
    ELSE [ret |-> body,
          printed |-> << <<"Error expanding query: ">> \o body.exc.msg >>]
try_except(body) ==
    IF body.kind = "return" THEN [ret |-> body, printed |-> <<>>]
    ELSE IF ExceptException(body.exc)
    THEN [ret |-> Return(<<>>),
          printed |-> << <<"Error expanding query: ">> \o body.exc.msg >>]
    ELSE [ret |-> body, printed |-> <<>>]

\* A call that sent `requests` to the endpoint and ended as t, leaving self
Ran(self, requests, t) ==
    [ret |-> t.ret, printed |-> t.printed, requests |-> requests, self |-> self]

\* QueryExpander.expand_query with the endpoint's outcome for its llm.invoke
\* call: how it ends (ret), what it prints, the requests it sends, and self
\* as it leaves it
expand_query_retry(self, question, outcome) ==
    Ran(self,
        IF outcome.kind = "raise"
        THEN <<FormattedMessage(self, question), FormattedMessage(self, question)>>
        ELSE <<FormattedMessage(self, question)>>,
        try_except(try_body(outcome)))
expand_query_cached(self, question, outcome) ==
    IF "cache" \in DOMAIN self
    THEN Ran(self, <<FormattedMessage(self, question)>>,
             [ret |-> self.cache, printed |-> <<>>])
    ELSE Ran(self @@ [cache |-> try_except(try_body(outcome)).ret],
             <<FormattedMessage(self, question)>>,
             try_except(try_body(outcome)))
expand_query(self, question, outcome) ==
    Ran(self, <<FormattedMessage(self, question)>>, try_except(try_body(outcome)))

----------------------------------------------------------------------------
(* main *)

\* Characters str.strip() removes (the ASCII ones)
Whitespace == {" ", "\t", "\n", "\r", "\f"}

RECURSIVE lstrip(_)
lstrip(s) ==
    IF s # <<>> /\ Head(s) \in Whitespace THEN lstrip(Tail(s)) ELSE s

RECURSIVE rstrip(_)
rstrip(s) ==
    IF s # <<>> /\ s[Len(s)] \in Whitespace
    THEN rstrip(SubSeq(s, 1, Len(s) - 1)) ELSE s

strip_left_only(s) == lstrip(s)
strip(s) == rstrip(lstrip(s))

\* str.lower() on the letters the model's input uses
LowerOf ==
    [ Q |-> "q", U |-> "u", I |-> "i", T |-> "t", A |-> "a", H |-> "h" ]

lower(s) ==
    [k \in 1..Len(s) |-> IF s[k] \in DOMAIN LowerOf THEN LowerOf[s[k]] ELSE s[k]]

\* question.lower() == 'quit'
IsQuitCaseSensitive(question) == question = <<"q", "u", "i", "t">>
IsQuit(question) == lower(question) = <<"q", "u", "i", "t">>

Banner ==
    << <<"Welcome to LangChain Query Expander!">>,
       <<"Enter a question to see different variations (or 'quit' to exit)">>,
       <<"\nExample questions:">>,
       <<"1. 'What is the weather like today?'">>,
       <<"2. 'Can you recommend me a good book to read?'">>,
       <<"3. 'How do I make a cup of coffee?'">> >>

InputPrompt == <<"\nEnter your question: ">>

\* print(f"{i+1}. {variation}") for the i-th element, counting from 0
NumberedLineZeroBased(i, variation) == IntToStr(i) \o <<". ">> \o Str(variation)
NumberedLine(i, variation) == IntToStr(i + 1) \o <<". ">> \o Str(variation)

NumberedLines(variations) ==
    [k \in 1..Len(variations) |-> NumberedLine(k - 1, variations[k])]

TotalLine(variations) ==
    <<"Total number of variations created: ">> \o IntToStr(Len(variations))

\* The handler of main: what `except Exception as e` does with e
main_except(e) ==
    IF ExceptException(e)
    THEN [pc |-> "returned",
          printed |-> << <<"Error: ">> \o e.msg,
                         <<"Please check your API key and try again.">> >>]
    ELSE [pc |-> "propagated", printed |-> <<>>]

\* One pass of the body of `while True`, with the outcome of input() and of
\* the endpoint: exit is "break", "continue" or "raise"
loop_body(self, inp, outcome) ==
    IF inp.kind = "raise"
    THEN [exit |-> "raise", exc |-> inp.exc, printed |-> <<InputPrompt>>,
          called |-> FALSE]
    ELSE LET question == strip(inp.val)
         IN  IF IsQuit(question)
             THEN [exit |-> "break", printed |-> <<InputPrompt, <<"Thank you!">> >>,
                   called |-> FALSE]
             ELSE LET r == expand_query(self, question, outcome)
                      head == <<InputPrompt,
                                <<"\nGenerating variations of the questions...">> >>
                                \o r.printed
                  IN  IF r.ret.kind = "raise"
                      THEN [exit |-> "raise", exc |-> r.ret.exc, printed |-> head,
                            called |-> TRUE, question |-> question, run |-> r]
                      ELSE [exit |-> "continue",
                            printed |-> head \o << <<"\nGenerated variations:">> >>
                                        \o NumberedLines(r.ret.val)
                                        \o <<TotalLine(r.ret.val)>>,
                            called |-> TRUE, question |-> question, run |-> r]

----------------------------------------------------------------------------
(* The environment *)

KeyboardInterrupt == Exc("KeyboardInterrupt", <<>>)
NetworkError == Exc("ConnectionError", <<"Simulated network error">>)

Choices(l) == PyDict([choices |-> l])
TextChoice(t) == PyDict([text |-> t])

\* Values a text field may hold
Texts ==
    { PyStr(<<"How can I brew a coffee?">>),
      PyStr(<<" ", "a", " ", "\n">>),
      PyStr(<<>>),
      PyInt(42),
      None,
      PyDict([paraphrased_query |-> PyStr(<<"x">>)]) }

\* Responses of the shape {choices: [{text: t}, ...]}
ShapedResponses ==
    { Choices(PyList(<<TextChoice(t)>>)) : t \in Texts }
    \cup { Choices(PyList(<<TextChoice(PyStr(<<"How can I brew a coffee?">>)),
                            TextChoice(PyStr(<<"other">>))>>)) }
    \cup { Choices(PyList(<<TextChoice(PyStr(<<"first">>)), None,
                            TextChoice(PyStr(<<"third">>))>>)) }

\* Responses of any other shape
OtherResponses ==
    { None,
      PyInt(7),
      PyStr(<<"H", "i">>),
      PyList(<<>>),
      PyDict(<<>>),
      Choices(None),
      Choices(PyList(<<>>)),
      Choices(PyStr(<<"a", "b">>)),
      Choices(PyList(<<None>>)),
      Choices(PyList(<<PyDict([txt |-> PyStr(<<"x">>)])>>)),
      Choices(PyList(<<None, TextChoice(PyStr(<<"second">>))>>)) }

EndpointErrors ==
    { NetworkError,
      Exc("ValueError", <<"Invalid credentials">>),
      KeyboardInterrupt,
      Exc("SystemExit", <<"1">>) }

\* What a call of llm.invoke may do
EndpointOutcomes ==
    { Raise(e) : e \in EndpointErrors }
    \cup { Return(v) : v \in ShapedResponses \cup OtherResponses }

\* The endpoint outcomes the interactive runs are explored with
CliOutcomes ==
    { Raise(NetworkError),
      Raise(KeyboardInterrupt),
      Return(PyStr(<<"H", "i">>)),
      Return(Choices(PyList(<<>>))),
      Return(Choices(PyList(<<TextChoice(PyStr(<<"How can I brew a coffee?">>))>>))),
      Return(Choices(PyList(<<TextChoice(PyInt(42)), TextChoice(None)>>))) }

Questions ==
    { <<>>, <<"How do I make a cup of coffee?">> }

\* Whitespace put before and after a word: up to MaxPad characters
PadChars == <<" ", "\t">>
LeftPads == { [i \in 1..k |-> PadChars[((i - 1) % 2) + 1]] : k \in 0..MaxPad }
RightPads == { [i \in 1..k |-> PadChars[(i % 2) + 1]] : k \in 0..MaxPad }

QuitWords ==
    { <<a, b, c, d>> : a \in {"q", "Q"}, b \in {"u", "U"},
                       c \in {"i", "I"}, d \in {"t", "T"} }

OtherWords ==
    { <<>>,
      <<"a">>,
      <<"q", "u", "i">>,
      <<"q", "u", "i", "t", "s">>,
      <<"q", " ", "u", "i", "t">>,
      <<"H", "i", " ", "Q", "U", "I", "T">> }

\* The lines input() may return
Lines ==
    { l \o w \o r : l \in LeftPads, w \in QuitWords \cup OtherWords, r \in RightPads }

InputOutcomes ==
    { Return(line) : line \in Lines }
    \cup { Raise(Exc("EOFError", <<"EOF when reading a line">>)),
           Raise(KeyboardInterrupt) }

\* What QueryExpander() may do
CtorOutcomes ==
    { Return(QueryExpander_init),
      Raise(Exc("ValueError", <<"Could not authenticate with huggingface_hub.">>)),
      Raise(KeyboardInterrupt) }

----------------------------------------------------------------------------
(* The interactive program *)

Init ==
    /\ pc = "init"
    /\ expander = NoExpander
    /\ out = <<>>
    /\ reads = 0
    /\ expandCalls = 0
    /\ netCalls = 0
    /\ lastInput = Nothing
    /\ lastArg = Nothing
    /\ lastRequest = Nothing
    /\ lastOutcome = Nothing
    /\ lastRet = Nothing
    /\ iterStart = 0
    /\ raised = Nothing
    /\ firstCall = Nothing

\* An exception raised inside the try block of main, and by which call
RaisedBy(e, by) == [kind |-> "raise", exc |-> e, by |-> by]

\* The state after main's construction of the expander ended as c
StartTo(c, h) ==
    /\ IF c.kind = "return"
       THEN /\ expander' = c.val
            /\ out' = out \o Banner
            /\ pc' = "loop"
            /\ raised' = raised
       ELSE /\ expander' = expander
            /\ out' = out \o h.printed
            /\ pc' = h.pc
            /\ raised' = RaisedBy(c.exc, "QueryExpander")
    /\ UNCHANGED <<reads, expandCalls, netCalls, lastInput, lastArg, lastRequest,
                   lastOutcome, lastRet, iterStart, firstCall>>

\* main, up to the loop: construction and the banner
Start ==
    /\ pc = "init"
    /\ \E c \in CtorOutcomes :
         StartTo(c, IF c.kind = "raise" THEN main_except(c.exc) ELSE Nothing)

\* Whether the iteration that reads inp reaches llm.invoke: only then does the
\* endpoint have an outcome
CallsEndpoint(inp) == inp.kind = "return" /\ ~IsQuit(strip(inp.val))

\* What main does with the way the loop body ended
loop_exit(b) ==
    IF b.exit = "raise" THEN main_except(b.exc)
    ELSE [pc |-> IF b.exit = "break" THEN "returned" ELSE "loop",
          printed |-> <<>>]

\* The state after an iteration that read inp, ran the body as b and left it as h
IterateTo(inp, outcome, b, h) ==
    /\ reads' = reads + 1
    /\ lastInput' = inp
    /\ iterStart' = Len(out)
    /\ out' = out \o b.printed \o h.printed
    /\ pc' = h.pc
    /\ raised' = IF b.exit = "raise"
                 THEN RaisedBy(b.exc, IF b.called THEN "expand_query" ELSE "input")
                 ELSE raised
    /\ IF b.called
       THEN /\ expandCalls' = expandCalls + 1
            /\ netCalls' = netCalls + Len(b.run.requests)
            /\ lastArg' = Return(b.question)
            /\ lastRequest' = b.run.requests
            /\ lastOutcome' = outcome
            /\ lastRet' = b.run.ret
            /\ expander' = b.run.self
       ELSE /\ lastArg' = Nothing
            /\ lastRequest' = Nothing
            /\ lastOutcome' = Nothing
            /\ lastRet' = Nothing
            /\ UNCHANGED <<expandCalls, netCalls, expander>>
    /\ UNCHANGED firstCall

IterateWith(inp, outcome, b) == IterateTo(inp, outcome, b, loop_exit(b))

\* One iteration of the loop of main, the handler of main included
Iterate ==
    /\ pc = "loop"
    /\ reads < MaxReads
    /\ \/ \E inp \in InputOutcomes :
            /\ ~CallsEndpoint(inp)
            /\ IterateWith(inp, Nothing, loop_body(expander, inp, Nothing))
       \/ \E inp \in InputOutcomes, outcome \in CliOutcomes :
            /\ CallsEndpoint(inp)
            /\ IterateWith(inp, outcome, loop_body(expander, inp, outcome))

Next == Start \/ Iterate

Spec == Init /\ [][Next]_vars

----------------------------------------------------------------------------
(* expand_query called directly, as a library *)

InitCalls ==
    /\ pc = "lib"
    /\ expander = QueryExpander_init
    /\ out = <<>>
    /\ reads = 0
    /\ expandCalls = 0
    /\ netCalls = 0
    /\ lastInput = Nothing
    /\ lastArg = Nothing
    /\ lastRequest = Nothing
    /\ lastOutcome = Nothing
    /\ lastRet = Nothing
    /\ iterStart = 0
    /\ raised = Nothing
    /\ firstCall = Nothing

\* The state after a direct call that ran as r
CallTo(question, outcome, r) ==
    /\ expandCalls' = expandCalls + 1
    /\ netCalls' = netCalls + Len(r.requests)
    /\ lastArg' = Return(question)
    /\ lastRequest' = r.requests
    /\ lastOutcome' = outcome
    /\ lastRet' = r.ret
    /\ expander' = r.self
    /\ iterStart' = Len(out)
    /\ out' = out \o r.printed
    /\ firstCall' = IF firstCall = Nothing
                    THEN [kind |-> "call", question |-> question,
                          outcome |-> outcome, ret |-> r.ret]
                    ELSE firstCall
    /\ UNCHANGED <<pc, reads, lastInput, raised>>

\* A caller invokes expander.expand_query(question)
Call ==
    /\ pc = "lib"
    /\ expandCalls < MaxCalls
    /\ \E question \in Questions, outcome \in EndpointOutcomes :
         CallTo(question, outcome, expand_query(expander, question, outcome))

NextCalls == Call

SpecCalls == InitCalls /\ [][NextCalls]_vars

----------------------------------------------------------------------------
(* Vocabulary of the properties *)

\* The response has the shape {choices: [{text: t}, ...]}
HasTextShape(v) ==
    /\ v.t = "dict"
    /\ "choices" \in DOMAIN v.d
    /\ v.d.choices.t = "list"
    /\ Len(v.d.choices.l) >= 1
    /\ v.d.choices.l[1].t = "dict"
    /\ "text" \in DOMAIN v.d.choices.l[1].d

TextOf(v) == v.d.choices.l[1].d.text

\* The latest call's llm.invoke raised / its extraction raised
InvokeRaised == lastOutcome.kind = "raise"
ExtractionRaised == lastOutcome.kind = "return" /\ ~HasTextShape(lastOutcome.val)

\* What the latest loop iteration (or direct call) wrote
IterOut == SubSeq(out, iterStart + 1, Len(out))

\* s is line without its leading and trailing whitespace
IsStripOf(s, line) ==
    \E i \in 1..(Len(line) + 1), j \in 0..Len(line) :
       /\ s = SubSeq(line, i, j)
       /\ \A k \in 1..Len(line) : (k < i \/ k > j) => line[k] \in Whitespace
       /\ s # <<>> => (s[1] \notin Whitespace /\ s[Len(s)] \notin Whitespace)

\* line is `quit` in some letter case / once stripped
LiteralQuit(line) == line \in QuitWords
StrippedQuit(line) == \E s \in QuitWords : IsStripOf(s, line)

\* The latest iteration read a line / attempted an expansion
ReadLine == pc # "init" /\ lastInput.kind = "return"
Attempted == lastArg.kind = "return"

ErrorLine(e) == <<"Error expanding query: ">> \o e.msg
CountLine(numeral) == <<"Total number of variations created: ", numeral>>
Numeral(n) == Digits[n + 1]

----------------------------------------------------------------------------
(* C1 *)

\* C1 as stated: expand_query never propagates an exception; whenever the
\* remote invocation raises or the extraction raises it returns the empty list.
C1_NeverPropagates ==
    expandCalls > 0 =>
      /\ lastRet.kind = "return"
      /\ (InvokeRaised \/ ExtractionRaised) => lastRet.val = <<>>

\* C1 amended: every exception of class Exception raised by the remote invocation,
\* and every exception of the extraction, becomes the empty list; an exception
\* outside Exception (KeyboardInterrupt, SystemExit) raised by the remote
\* invocation is the only thing expand_query propagates, and it propagates as is.
C1_ExceptionsBecomeEmpty ==
    expandCalls > 0 =>
      /\ (InvokeRaised /\ IsSubclass(lastOutcome.exc.cls, "Exception"))
            => lastRet = Return(<<>>)
      /\ ExtractionRaised => lastRet = Return(<<>>)
      /\ (InvokeRaised /\ ~IsSubclass(lastOutcome.exc.cls, "Exception"))
            => lastRet = lastOutcome
      /\ lastRet.kind = "raise" => InvokeRaised

C1_Witness ==
    /\ pc = "lib"
    /\ firstCall # Nothing
    /\ firstCall.outcome = Raise(NetworkError)
    /\ firstCall.ret = Return(<<>>)
    /\ lastOutcome = Return(Choices(PyList(<<>>)))
    /\ lastRet = Return(<<>>)

(* C2 *)

\* C2: a response of the shape {choices: [{text: t}, ...]} makes expand_query
\* return the one-element list [t], t unchanged, whatever the question and
\* the number of choices.
C2_ReturnsFirstTextVerbatim ==
    (expandCalls > 0 /\ lastOutcome.kind = "return" /\ HasTextShape(lastOutcome.val))
      => /\ lastRet.kind = "return"
         /\ Len(lastRet.val) = 1
         /\ lastRet.val[1] = TextOf(lastOutcome.val)

C2_Witness ==
    /\ pc = "lib"
    /\ lastArg = Return(<<>>)
    /\ lastOutcome = Return(Choices(PyList(<<TextChoice(PyStr(<<"first">>)), None,
                                             TextChoice(PyStr(<<"third">>))>>)))
    /\ lastRet = Return(<<PyStr(<<"first">>)>>)
    /\ firstCall.outcome = Return(Choices(PyList(<<TextChoice(PyStr(<<" ", "a", " ", "\n">>))>>)))
    /\ firstCall.ret = Return(<<PyStr(<<" ", "a", " ", "\n">>)>>)

(* C5 *)

\* C5: every invocation of expand_query issues exactly one call to the
\* endpoint, whether it succeeds, fails and returns, or propagates.
C5_OneCallPerInvocation ==
    [][ /\ expandCalls' = expandCalls + 1
           => (netCalls' = netCalls + 1 /\ Len(lastRequest') = 1)
        /\ expandCalls' = expandCalls => netCalls' = netCalls ]_vars

C5_Witness ==
    /\ pc = "lib"
    /\ expandCalls = 2
    /\ netCalls = 2
    /\ firstCall.outcome.kind = "return"
    /\ lastOutcome = Raise(NetworkError)

(* C8 *)

\* C8: the expander is the same after any call as before it, and a call made
\* after earlier calls ends as the first call with the same endpoint outcome
\* ended: the result depends on the call's own endpoint outcome only.
C8_Stateless ==
    pc = "lib" =>
      /\ expander = QueryExpander_init
      /\ (expandCalls > 0 /\ lastOutcome = firstCall.outcome)
            => lastRet = firstCall.ret

C8_Witness ==
    /\ pc = "lib"
    /\ expandCalls = 3
    /\ firstCall.outcome = Return(Choices(PyList(<<TextChoice(PyStr(<<"How can I brew a coffee?">>))>>)))
    /\ lastOutcome = firstCall.outcome
    /\ lastArg.val # firstCall.question
    /\ lastRet = Return(<<PyStr(<<"How can I brew a coffee?">>)>>)
    /\ Len(out) = 1

(* C9 *)

\* C9 as stated: every element of the list expand_query returns is a string.
C9_ElementsAreStrings ==
    (expandCalls > 0 /\ lastRet.kind = "return")
      => \A k \in 1..Len(lastRet.val) : lastRet.val[k].t = "str"

(* C3 *)

\* C3 as stated: the loop ends on a line exactly when the line is `quit` in
\* some letter case, without an expansion attempt; every other line triggers
\* an expansion attempt and does not end the loop.
C3_EndsOnLiteralQuitOnly ==
    ReadLine =>
      IF LiteralQuit(lastInput.val)
      THEN pc = "returned" /\ ~Attempted
      ELSE Attempted /\ pc = "loop"

\* C3 amended: the loop ends, without an expansion attempt, on a line whose
\* stripped form is `quit` in some letter case; every other line triggers an
\* expansion attempt, and the loop goes on unless that attempt propagates an
\* exception outside Exception.
C3_EndsOnStrippedQuit ==
    ReadLine =>
      IF StrippedQuit(lastInput.val)
      THEN pc = "returned" /\ ~Attempted /\ raised = Nothing
      ELSE /\ Attempted
           /\ lastRet.kind = "return" => pc = "loop"
           /\ lastRet.kind = "raise"
                => (pc = "propagated" /\ ~IsSubclass(lastRet.exc.cls, "Exception"))

C3_Witness ==
    /\ reads = 2
    /\ expandCalls = 1
    /\ lastInput = Return(<<" ", "Q", "u", "I", "t", "\t">>)
    /\ pc = "returned"
    /\ out[Len(out)] = <<"Thank you!">>

(* C10 *)

\* C10 as stated: the loop ends on a line exactly when its stripped,
\* lower-cased form is `quit`, with no endpoint call; the question handed to
\* expand_query is the stripped line.
C10_EndsExactlyOnStrippedQuit ==
    ReadLine =>
      /\ pc # "loop" <=> StrippedQuit(lastInput.val)
      /\ StrippedQuit(lastInput.val) => lastRequest = Nothing
      /\ Attempted => IsStripOf(lastArg.val, lastInput.val)

\* C10 amended: the loop is left through the quit check, with no endpoint
\* call, exactly when the line's stripped, lower-cased form is `quit`; a line
\* of any other form is handed to expand_query stripped, never raw, and that
\* is also what is sent to the endpoint as the human message.
C10_StripsEveryLine ==
    ReadLine =>
      /\ (pc = "returned" /\ raised = Nothing) <=> StrippedQuit(lastInput.val)
      /\ StrippedQuit(lastInput.val) => (lastRequest = Nothing /\ ~Attempted)
      /\ ~StrippedQuit(lastInput.val) =>
            /\ Attempted
            /\ IsStripOf(lastArg.val, lastInput.val)
            /\ lastRequest[1][2].content = lastArg.val

C10_Witness ==
    /\ reads = 1
    /\ lastInput = Return(<<" ", "\t">>)
    /\ lastArg = Return(<<>>)
    /\ netCalls = 1
    /\ pc = "loop"

(* C4 *)

\* C4: after a non-quit line whose expansion returned n elements, the output
\* of the iteration ends with the n lines `k. <element>`, k from 1 in the
\* order returned, and then `Total number of variations created: n`.
C4_NumberedListAndCount ==
    (ReadLine /\ Attempted /\ lastRet.kind = "return") =>
      LET n == Len(lastRet.val)
          seg == IterOut
      IN  /\ Len(seg) >= n + 2
          /\ seg[Len(seg)] = CountLine(Numeral(n))
          /\ \A k \in 1..n :
               seg[Len(seg) - n - 1 + k] = <<Numeral(k), ". ">> \o Str(lastRet.val[k])
          /\ seg[Len(seg) - n - 1] = <<"\nGenerated variations:">>

C4_Witness ==
    /\ ReadLine
    /\ lastOutcome = Return(Choices(PyList(<<TextChoice(PyStr(<<"How can I brew a coffee?">>))>>)))
    /\ Len(out) >= 2
    /\ out[Len(out) - 1] = <<"1", ". ", "How can I brew a coffee?">>
    /\ out[Len(out)] = <<"Total number of variations created: ", "1">>

(* C6 *)

\* What C6 says of an iteration whose endpoint call raised e
FailureReport(e) ==
    LET seg == IterOut
    IN  /\ \E i \in 1..Len(seg) :
             /\ seg[i] = ErrorLine(e)
             /\ i < Len(seg)
             /\ \A k \in 1..(i - 1) : seg[k] \in {InputPrompt, <<"\nGenerating variations of the questions...">>}
        /\ seg[Len(seg)] = CountLine("0")
        /\ \A k \in 1..Len(seg) : seg[k][1] # "Error: "
        /\ pc = "loop"

\* C6 as stated: when the endpoint call fails in an iteration, the line
\* `Error expanding query: <error text>` is printed, then the count 0; no
\* `Error: ...` line is printed and the loop goes on.
C6_FailureIsReportedAndLoopGoesOn ==
    (ReadLine /\ Attempted /\ InvokeRaised) => FailureReport(lastOutcome.exc)

\* C6 amended: the same, for a failure of class Exception; a failure outside
\* Exception (KeyboardInterrupt, SystemExit) prints none of these lines and
\* leaves main as the exception it is.
C6_ExceptionIsReportedAndLoopGoesOn ==
    (ReadLine /\ Attempted /\ InvokeRaised) =>
      IF IsSubclass(lastOutcome.exc.cls, "Exception")
      THEN FailureReport(lastOutcome.exc)
      ELSE /\ pc = "propagated"
           /\ IterOut = <<InputPrompt, <<"\nGenerating variations of the questions...">> >>

C6_Witness ==
    /\ reads = 2
    /\ pc = "loop"
    /\ \E i \in 1..iterStart :
         /\ out[i] = <<"Error expanding query: ", "Simulated network error">>
         /\ out[iterStart] = <<"Total number of variations created: ", "0">>
    /\ lastOutcome = Raise(NetworkError)

(* C7 *)

\* The latest exception of main raised outside expand_query
RaisedOutside == raised # Nothing /\ raised.by \in {"QueryExpander", "input"}

HandledAtTopLevel ==
    /\ pc = "returned"
    /\ Len(out) >= 2
    /\ out[Len(out) - 1] = <<"Error: ">> \o raised.exc.msg
    /\ out[Len(out)] = <<"Please check your API key and try again.">>

\* C7 as stated: an exception raised in main outside expand_query is caught
\* by the top-level handler, which prints `Error: ...`, and main returns.
C7_OutsideExceptionIsHandled ==
    RaisedOutside => HandledAtTopLevel

\* C7 amended: so it is for an exception of class Exception; one outside
\* Exception (KeyboardInterrupt, SystemExit) leaves main as an exception with
\* no `Error: ...` line.  Either way nothing is read or expanded afterwards.
C7_OutsideExceptionEndsMain ==
    /\ [](RaisedOutside =>
            IF IsSubclass(raised.exc.cls, "Exception")
            THEN HandledAtTopLevel
            ELSE /\ pc = "propagated"
                 /\ \A k \in 1..Len(out) : out[k][1] # "Error: ")
    /\ [][RaisedOutside => (reads' = reads /\ expandCalls' = expandCalls /\ pc' = pc)]_vars

C7_Witness ==
    /\ reads = 2
    /\ expandCalls = 1
    /\ raised = RaisedBy(Exc("EOFError", <<"EOF when reading a line">>), "input")
    /\ pc = "returned"
    /\ out[Len(out) - 1] = <<"Error: ", "EOF when reading a line">>

====
